---- MODULE Spec2Model ----
(***************************************************************************)
(* The three DAQ modules of afv1_example: RandomDataListGenerator,         *)
(* ListReverser and ReversedListValidator.  Each module owns one worker    *)
(* thread (do_work) that is started and stopped by commands and that       *)
(* moves lists of integers between bounded queues with timed push/pop.     *)
(***************************************************************************)
EXTENDS Integers, Sequences, FiniteSets, TLC

\* ---------------------------------------------------------------- bounds
MaxLen == 2
QueueCap == 1
MaxItems == 3
MaxCount == 3

\* ------------------------------------------------------ program constants
DefaultIntsPerList == 4
DefaultWaitMsec == 1000
QueueTimeoutMsec == 100
RandModulus == 1000

Modules == {"gen", "rev", "val"}
QueueNames == {"A", "B", "C"}
NULL == "null"

\* rand() is never seeded: it walks one fixed sequence.  The sequence is
\* abstracted to a cycle through the two ends of the residue range.
RandSeq == <<0, RandModulus - 1>>

\* the "nIntsPerList" key of the generator's configuration: {n}, or {} when absent
ConfigInts == {{}} \cup {{n} : n \in 0 .. MaxLen}

\* lists the host's other modules may put on a queue: what a generator sends
\* (up to MaxLen elements, from any position of rand()'s sequence)
\* the "waitBetweenSendsMsec" key of the generator's configuration, or {} when absent
ConfigWaits == {{}, {0}}

\* the "outputs" of the generator's configuration
GenOutputs == {<<>>, <<"A", "B">>}

EnvLists ==
  {[i \in 1 .. n |-> ((RandSeq[((st + i - 2) % Len(RandSeq)) + 1]) % RandModulus) + 1] :
     n \in 0 .. MaxLen, st \in 1 .. Len(RandSeq)}

Range(s) == {s[i] : i \in DOMAIN s}
Bump(n) == IF n < MaxItems THEN n + 1 ELSE n

VARIABLES
  deployed,          \* module instances the application holds
  queues,            \* queue name -> the lists waiting in it
  envBudget,         \* lists the rest of the host may still push
  pc,                \* module -> position of its worker thread
  running,           \* module -> ThreadHelper's thread_running flag
  stopping,          \* module -> do_stop is waiting for the worker to end
  issued,            \* module -> ers issues raised by its latest step
  lastOp,            \* module -> outcome of the queue call of its latest step
  cmdLog,            \* module -> what became of the latest configure command
  sinceCheck,        \* module -> the waits since its worker last tested the flag
  \* RandomDataListGenerator
  outputQueues,      \* outputQueues_ (names, in configuration order)
  configInts,        \* the configuration's nIntsPerList ({}: absent)
  configWait,        \* the configuration's waitBetweenSendsMsec ({}: absent)
  nIntsPerList,      \* nIntsPerList_
  waitBetweenSendsMsec, \* waitBetweenSendsMsec_
  randState,         \* rand()'s position in its sequence
  theList, idx, generatedCount, genSentCount, tmpIdx,
  genPushLog,        \* <<queue index, list>> pushed for the current list
  \* ListReverser
  inputQueue, outputQueue,
  revQueuesAreDefined, workingVector, receivedCount, revSentCount,
  revIn,             \* the list as it was popped
  revPushLog,        \* lists pushed since the latest pop
  \* ReversedListValidator
  valChecks,         \* TRUE: do_work tests its handles (part_002)
  reversedDataQueue, originalDataQueue,
  valQueuesAreDefined, reversedData, originalData,
  reversedCount, comparisonCount, failureCount,
  valRevTaken,       \* lists taken from the reversed-data queue since construction
  valOrigTaken,      \* lists taken from the original-data queue since construction
  valDropped,        \* reversed lists taken and never compared
  valLastCmp         \* the latest comparison

genVars == <<outputQueues, configInts, configWait, nIntsPerList, waitBetweenSendsMsec,
             randState, theList, idx,
             generatedCount, genSentCount, tmpIdx, genPushLog>>
revVars == <<inputQueue, outputQueue, revQueuesAreDefined, workingVector, receivedCount,
             revSentCount, revIn, revPushLog>>
valVars == <<valChecks, reversedDataQueue, originalDataQueue, valQueuesAreDefined, reversedData,
             originalData, reversedCount, comparisonCount, failureCount,
             valRevTaken, valOrigTaken, valDropped, valLastCmp>>
thrVars == <<pc, running, stopping, issued, lastOp, cmdLog, sinceCheck>>
vars == <<deployed, queues, envBudget, thrVars, genVars, revVars, valVars>>

NoCmp == [n |-> 0, rev |-> <<>>, orig |-> <<>>, before |-> 0, after |-> 0,
          revPos |-> 0, origPos |-> 0]

\* ------------------------------------------------------------- queues
\* DAQSink::push(list, timeout): succeeds when the queue has room
HasRoom(q) == Len(queues[q]) < QueueCap
\* DAQSource::pop(list, timeout): succeeds when the queue holds a list
HasData(q) == Len(queues[q]) > 0

\* a timeout that goes unreported
TimeoutWarning_Silent == {}

\* ers::warning(dunedaq::appfwk::QueueTimeoutExpired(ERS_HERE, get_name(), ...))
TimeoutWarning == {"QueueTimeoutExpired"}

\* the positions at which a worker tests thread_running()
FlagCheckPcs == {"loop", "pushchk", "origchk"}

\* how long a step with outcome op may block: a timed queue call, the sleep, or nothing
WaitOf(op) ==
  IF op \in {"popped", "pushed", "popTimeout", "pushTimeout"}
    THEN <<<<"queue", QueueTimeoutMsec>>>>
    ELSE IF op = "slept" THEN <<<<"sleep", waitBetweenSendsMsec>>>> ELSE <<>>

\* one step of module m: its position, the issues it raised, its queue call
Step(m, to, iss, op) ==
  /\ pc' = [pc EXCEPT ![m] = to]
  /\ issued' = [issued EXCEPT ![m] = iss]
  /\ lastOp' = [lastOp EXCEPT ![m] = op]
  /\ sinceCheck' = [sinceCheck EXCEPT ![m] =
       IF pc[m] \in FlagCheckPcs \/ to \in {"entry", "idle"} THEN <<>>
       ELSE IF Len(@) < MaxItems THEN @ \o WaitOf(op) ELSE @]
  /\ UNCHANGED cmdLog

\* ------------------------------------------------------------ commands
do_start(m) ==
  /\ m \in deployed
  /\ pc[m] = "idle"
  /\ ~stopping[m]
  /\ running' = [running EXCEPT ![m] = TRUE]
  /\ Step(m, "entry", {}, "none")
  /\ UNCHANGED <<deployed, queues, envBudget, stopping, genVars, revVars, valVars>>

\* do_stop: stop_working_thread clears the flag ...
do_stop(m) ==
  /\ pc[m] # "idle"
  /\ ~stopping[m]
  /\ running' = [running EXCEPT ![m] = FALSE]
  /\ stopping' = [stopping EXCEPT ![m] = TRUE]
  /\ UNCHANGED <<deployed, queues, envBudget, pc, issued, lastOp, cmdLog, sinceCheck,
                 genVars, revVars, valVars>>

\* a do_stop that returns without waiting for the worker
JoinReturns_Detached(m) == TRUE

\* thread_.stop_working_thread_() returns when do_work has returned
JoinReturns(m) == pc[m] = "done"

\* ... and joins the worker
do_stop_join(m) ==
  /\ stopping[m]
  /\ JoinReturns(m)
  /\ stopping' = [stopping EXCEPT ![m] = FALSE]
  /\ Step(m, "idle", {}, "none")
  /\ UNCHANGED <<deployed, queues, envBudget, running, genVars, revVars, valVars>>

\* ------------------------------------------- RandomDataListGenerator
\* what no step of the generator's worker changes
genFrame == <<deployed, envBudget, running, stopping, outputQueues, configInts,
              configWait, waitBetweenSendsMsec, revVars, valVars>>

\* a configure that leaves the list length at its default
ConfigValue_Ignored(c) == DefaultIntsPerList

\* get_config().value<size_t>("nIntsPerList", 4)
ConfigValue(c) == IF c = {} THEN DefaultIntsPerList ELSE CHOOSE n \in c : TRUE

\* get_config().value<size_t>("waitBetweenSendsMsec", 1000)
ConfigWait(c) == IF c = {} THEN DefaultWaitMsec ELSE CHOOSE n \in c : TRUE

\* the commands the constructor of module m registers
Registered(m) ==
  IF m = "gen" \/ (m = "val" /\ valChecks)
    THEN {"configure", "start", "stop"}
    ELSE {"start", "stop"}

do_configure ==
  /\ "gen" \in deployed
  /\ "configure" \in Registered("gen")
  /\ nIntsPerList' = ConfigValue(configInts)
  /\ waitBetweenSendsMsec' = ConfigWait(configWait)
  /\ cmdLog' = [cmdLog EXCEPT !["gen"] = "handled"]
  /\ UNCHANGED <<deployed, queues, envBudget, pc, running, stopping, issued, lastOp,
                 sinceCheck, outputQueues, configInts, configWait,
                 randState, theList, idx, generatedCount, genSentCount, tmpIdx,
                 genPushLog, revVars, valVars>>

\* the configure command dispatched to the reverser or the validator: the handler
\* of ReversedListValidator (part_002) only traces; a command that was not
\* registered is refused by the framework
execute_configure(m) ==
  /\ m \in deployed \ {"gen"}
  /\ cmdLog' = [cmdLog EXCEPT ![m] =
       IF "configure" \in Registered(m) THEN "handled" ELSE "rejected"]
  /\ UNCHANGED <<deployed, queues, envBudget, pc, running, stopping, issued, lastOp,
                 sinceCheck, genVars, revVars, valVars>>

\* (rand() % 1000) + 1
RandElem(r) == (r % RandModulus) + 1

\* std::vector<int> theList(n): n value-initialised ints
NewList(n) == [i \in 1 .. n |-> 0]

\* size_t generatedCount = 0; size_t sentCount = 0;
GenEntry ==
  /\ pc["gen"] = "entry"
  /\ generatedCount' = 0
  /\ genSentCount' = 0
  /\ Step("gen", "loop", {}, "none")
  /\ UNCHANGED <<genFrame, queues, nIntsPerList, randState, theList, idx, tmpIdx,
                 genPushLog>>

\* while (thread_running()) { std::vector<int> theList(nIntsPerList_); ...
GenLoop ==
  /\ pc["gen"] = "loop"
  /\ \/ /\ running["gen"]
        /\ generatedCount < MaxCount
        /\ theList' = NewList(nIntsPerList)
        /\ Step("gen", "fill", {}, "none")
     \/ /\ ~running["gen"]
        /\ Step("gen", "exit", {}, "none")
        /\ UNCHANGED theList
  /\ UNCHANGED <<genFrame, queues, nIntsPerList, randState, idx, generatedCount,
                 genSentCount, tmpIdx, genPushLog>>

\* for (idx = 0; idx < nIntsPerList_; ++idx) theList[idx] = (rand() % 1000) + 1;
\* generatedCount++; int tmpIdx = 0;
GenFill ==
  /\ pc["gen"] = "fill"
  /\ \/ /\ idx < nIntsPerList
        /\ idx < Len(theList)
        /\ theList' = [theList EXCEPT ![idx + 1] = RandElem(RandSeq[randState])]
        /\ randState' = (randState % Len(RandSeq)) + 1
        /\ idx' = idx + 1
        /\ Step("gen", "fill", {}, "none")
        /\ UNCHANGED <<generatedCount, tmpIdx>>
     \/ /\ idx < nIntsPerList
        /\ idx >= Len(theList)
        /\ randState' = (randState % Len(RandSeq)) + 1
        /\ idx' = idx + 1
        /\ \E to \in {"fill", "crashed"} : Step("gen", to, {}, "oobWrite")
        /\ UNCHANGED <<theList, generatedCount, tmpIdx>>
     \/ /\ idx >= nIntsPerList
        /\ generatedCount' = generatedCount + 1
        /\ idx' = 0
        /\ tmpIdx' = 0
        /\ Step("gen", "forq", {"ProgressUpdate"}, "none")
        /\ UNCHANGED <<theList, randState>>
  /\ UNCHANGED <<genFrame, queues, nIntsPerList, genSentCount, genPushLog>>

\* a generator that says nothing when it has no queue to write to
NoQueuesIssues_Silent == {}

\* if (outputQueues_.size() == 0) { ers::warning(NoOutputQueuesAvailableWarning(...)); }
NoQueuesIssues ==
  IF Len(outputQueues) = 0 THEN {"NoOutputQueuesAvailableWarning"} ELSE {}

\* for (auto& outQueue : outputQueues_) { thisQueueName = outputQueueNames_[tmpIdx++];
\*   bool successfullyWasSent = false; ... }
\* if (outputQueues_.size() == 0) ers::warning(NoOutputQueuesAvailableWarning)
GenForQueue ==
  /\ pc["gen"] = "forq"
  /\ \/ /\ tmpIdx < Len(outputQueues)
        /\ tmpIdx' = tmpIdx + 1
        /\ Step("gen", "pushchk", {}, "none")
     \/ /\ tmpIdx >= Len(outputQueues)
        /\ Step("gen", "sleep", NoQueuesIssues, "none")
        /\ UNCHANGED tmpIdx
  /\ UNCHANGED <<genFrame, queues, nIntsPerList, randState, theList, idx,
                 generatedCount, genSentCount, genPushLog>>

\* a retry loop that gives up after the first timeout
GenPushRetry_GiveUp == running["gen"] /\ lastOp["gen"] # "pushTimeout"

\* a retry loop that never looks at the running flag
GenPushRetry_Forever == TRUE

\* while (!successfullyWasSent && thread_.thread_running())
GenPushRetry == running["gen"]

GenPushCheck ==
  /\ pc["gen"] = "pushchk"
  /\ Step("gen", IF GenPushRetry THEN "push" ELSE "forq", {}, "none")
  /\ UNCHANGED <<genFrame, queues, nIntsPerList, randState, theList, idx,
                 generatedCount, genSentCount, tmpIdx, genPushLog>>

\* a list moved into the first queue and empty for the later ones
GenPushed_Moved == IF tmpIdx = 1 THEN theList ELSE <<>>

\* the list handed to outQueue->push
GenPushed == theList

\* try { outQueue->push(theList, queueTimeout_); successfullyWasSent = true; ++sentCount; }
\* catch (QueueTimeoutExpired) { ers::warning(QueueTimeoutExpired(...)); }
GenPush ==
  /\ pc["gen"] = "push"
  /\ LET q == outputQueues[tmpIdx] IN
     \/ /\ HasRoom(q)
        /\ queues' = [queues EXCEPT ![q] = Append(@, GenPushed)]
        /\ genSentCount' = genSentCount + 1
        /\ genPushLog' = Append(genPushLog, <<tmpIdx, GenPushed>>)
        /\ Step("gen", "forq", {}, "pushed")
     \/ /\ ~HasRoom(q)
        /\ Step("gen", "pushchk", TimeoutWarning, "pushTimeout")
        /\ UNCHANGED <<queues, genSentCount, genPushLog>>
  /\ UNCHANGED <<genFrame, nIntsPerList, randState, theList, idx, generatedCount, tmpIdx>>

\* std::this_thread::sleep_for(waitBetweenSendsMsec_); the loop body's locals end here
GenSleep ==
  /\ pc["gen"] = "sleep"
  /\ theList' = <<>>
  /\ tmpIdx' = 0
  /\ genPushLog' = <<>>
  /\ Step("gen", "loop", {}, "slept")
  /\ UNCHANGED <<genFrame, queues, nIntsPerList, randState, idx, generatedCount,
                 genSentCount>>

\* ers::info(ProgressUpdate(... generatedCount ... sentCount ...)); do_work returns
GenExit ==
  /\ pc["gen"] = "exit"
  /\ generatedCount' = 0
  /\ genSentCount' = 0
  /\ Step("gen", "done", {"ProgressUpdate"}, "none")
  /\ UNCHANGED <<genFrame, queues, nIntsPerList, randState, theList, idx, tmpIdx,
                 genPushLog>>

\* the steps of do_work while the running flag holds
GenRun == GenEntry \/ GenLoop \/ GenFill \/ GenForQueue \/ GenPushCheck \/ GenPush
          \/ GenSleep

GenWork == GenRun \/ GenExit

\* ------------------------------------------------------- ListReverser
revFrame == <<deployed, envBudget, running, stopping, inputQueue, outputQueue,
              genVars, valVars>>

\* std::reverse(first, last): while (first != last && first != --last) swap(*first++, *last)
RECURSIVE ReverseFrom(_, _, _)
ReverseFrom(s, first, last) ==
  IF first = last \/ first = last - 1 THEN s
  ELSE ReverseFrom([s EXCEPT ![first] = s[last - 1], ![last - 1] = s[first]],
                   first + 1, last - 1)

\* a reversal handed the last element instead of the end of the list
Reverse_ShortRange(s) == IF Len(s) = 0 THEN s ELSE ReverseFrom(s, 1, Len(s))

\* std::reverse(v.begin(), v.end())
Reverse(s) == ReverseFrom(s, 1, Len(s) + 1)

\* the InvalidQueueFatalError raised for each handle that is not set
FatalsFor(handles) == {"InvalidQueueFatalError:" \o h[1] : h \in {x \in handles : x[2] = NULL}}

\* int receivedCount = 0; int sentCount = 0; std::vector<int> workingVector;
\* bool queuesAreDefined = true; if (inputQueue_.get() == nullptr) { ers::fatal(...); ... }
RevEntry ==
  /\ pc["rev"] = "entry"
  /\ receivedCount' = 0
  /\ revSentCount' = 0
  /\ workingVector' = <<>>
  /\ revQueuesAreDefined' = (inputQueue # NULL /\ outputQueue # NULL)
  /\ Step("rev", "loop", FatalsFor({<<"input", inputQueue>>, <<"output", outputQueue>>}),
          "none")
  /\ UNCHANGED <<revFrame, queues, revIn, revPushLog>>

\* a loop condition with the handle test inverted
RevLoopCond_Inverted == ~revQueuesAreDefined /\ running["rev"]

\* while (queuesAreDefined && thread_.thread_running())
RevLoopCond == revQueuesAreDefined /\ running["rev"]

RevLoop ==
  /\ pc["rev"] = "loop"
  /\ Step("rev", IF RevLoopCond THEN "pop" ELSE "exit", {}, "none")
  /\ UNCHANGED <<revFrame, queues, revQueuesAreDefined, workingVector, receivedCount,
                 revSentCount, revIn, revPushLog>>

\* a timed-out pop that falls through to the push of the working vector
RevAfterEmptyPop_NoContinue == "pushchk"

\* if (!inputQueue_->pop(workingVector, queueTimeout_)) {continue;}
RevAfterEmptyPop == "loop"

\* if (!inputQueue_->pop(workingVector, queueTimeout_)) {continue;}
\* ++receivedCount; std::reverse(workingVector.begin(), workingVector.end());
RevPop ==
  /\ pc["rev"] = "pop"
  /\ \/ /\ HasData(inputQueue)
        /\ workingVector' = Reverse(Head(queues[inputQueue]))
        /\ revIn' = Head(queues[inputQueue])
        /\ revPushLog' = <<>>
        /\ queues' = [queues EXCEPT ![inputQueue] = Tail(@)]
        /\ receivedCount' = receivedCount + 1
        /\ Step("rev", "pushchk", {"ProgressUpdate"}, "popped")
     \/ /\ ~HasData(inputQueue)
        /\ Step("rev", RevAfterEmptyPop, {}, "popTimeout")
        /\ UNCHANGED <<queues, workingVector, receivedCount, revIn, revPushLog>>
  /\ UNCHANGED <<revFrame, revQueuesAreDefined, revSentCount>>

\* a retry loop that gives up after the first timeout
RevPushRetry_GiveUp == running["rev"] /\ lastOp["rev"] # "pushTimeout"

\* while (!successfullyWasSent && thread_.thread_running())
RevPushRetry == running["rev"]

RevPushCheck ==
  /\ pc["rev"] = "pushchk"
  /\ Step("rev", IF RevPushRetry THEN "push" ELSE "loop", {}, "none")
  /\ UNCHANGED <<revFrame, queues, revQueuesAreDefined, workingVector, receivedCount,
                 revSentCount, revIn, revPushLog>>

\* the list handed to outputQueue_->push
RevPushed == workingVector

\* a retry that pushes again without testing the running flag
RevAfterTimeout_NoCheck == "push"

\* after the catch block the retry loop tests its condition again
RevAfterTimeout == "pushchk"

\* try { outputQueue_->push(workingVector, queueTimeout_); successfullyWasSent = true;
\*       ++sentCount; } catch (QueueTimeoutExpired) { ers::warning(...); }
RevPush ==
  /\ pc["rev"] = "push"
  /\ \/ /\ HasRoom(outputQueue)
        /\ queues' = [queues EXCEPT ![outputQueue] = Append(@, RevPushed)]
        /\ revSentCount' = revSentCount + 1
        /\ revPushLog' = Append(revPushLog, RevPushed)
        /\ Step("rev", "loop", {}, "pushed")
     \/ /\ ~HasRoom(outputQueue)
        /\ Step("rev", RevAfterTimeout, TimeoutWarning, "pushTimeout")
        /\ UNCHANGED <<queues, revSentCount, revPushLog>>
  /\ UNCHANGED <<revFrame, revQueuesAreDefined, workingVector, receivedCount, revIn>>

\* ers::info(ProgressUpdate(... receivedCount ... sentCount ...)); do_work returns and
\* its locals end
RevExit ==
  /\ pc["rev"] = "exit"
  /\ receivedCount' = 0
  /\ revSentCount' = 0
  /\ workingVector' = <<>>
  /\ revIn' = <<>>
  /\ revPushLog' = <<>>
  /\ Step("rev", "done", {"ProgressUpdate"}, "none")
  /\ UNCHANGED <<revFrame, queues, revQueuesAreDefined>>

RevRun == RevEntry \/ RevLoop \/ RevPop \/ RevPushCheck \/ RevPush

RevWork == RevRun \/ RevExit

\* ---------------------------------------------- ReversedListValidator
valFrame == <<deployed, envBudget, running, stopping, valChecks, reversedDataQueue,
              originalDataQueue, genVars, revVars>>

\* int reversedCount = 0; int comparisonCount = 0; int failureCount = 0;
\* part_002 only: bool queuesAreDefined = true;
\*                if (reversedDataQueue_.get() == nullptr) { ers::fatal(...); ... }
ValEntry ==
  /\ pc["val"] = "entry"
  /\ reversedCount' = 0
  /\ comparisonCount' = 0
  /\ failureCount' = 0
  /\ reversedData' = <<>>
  /\ originalData' = <<>>
  /\ valLastCmp' = NoCmp
  /\ valQueuesAreDefined' =
       (valChecks => (reversedDataQueue # NULL /\ originalDataQueue # NULL))
  /\ Step("val", "loop",
          IF valChecks
            THEN FatalsFor({<<"reversed data", reversedDataQueue>>,
                            <<"original data", originalDataQueue>>})
            ELSE {},
          "none")
  /\ UNCHANGED <<valFrame, queues, valRevTaken, valOrigTaken, valDropped>>

\* while (queuesAreDefined && thread_.thread_running())   (part_002)
\* while (thread_.thread_running())                       (ReversedListValidator.hpp)
ValLoopCond == valQueuesAreDefined /\ running["val"]

ValLoop ==
  /\ pc["val"] = "loop"
  /\ valLastCmp' = NoCmp
  /\ Step("val", IF ValLoopCond THEN "popRev" ELSE "exit", {}, "none")
  /\ UNCHANGED <<valFrame, queues, valQueuesAreDefined, reversedData, originalData,
                 reversedCount, comparisonCount, failureCount, valRevTaken,
                 valOrigTaken, valDropped>>

\* a call through a null unique_ptr: the worker faults, or the call fails
NullCall(m) ==
  \E to \in {"crashed", "loop"} : Step(m, to, {}, "nullCall")

\* if (!reversedDataQueue_->pop(reversedData, queueTimeout_)) {continue;}
\* ++reversedCount;
ValPopRev ==
  /\ pc["val"] = "popRev"
  /\ IF reversedDataQueue = NULL
       THEN /\ NullCall("val")
            /\ UNCHANGED <<queues, reversedData, reversedCount, valRevTaken>>
       ELSE \/ /\ HasData(reversedDataQueue)
               /\ reversedData' = Head(queues[reversedDataQueue])
               /\ queues' = [queues EXCEPT ![reversedDataQueue] = Tail(@)]
               /\ reversedCount' = reversedCount + 1
               /\ valRevTaken' = Bump(valRevTaken)
               /\ Step("val", "origchk", {}, "popped")
            \/ /\ ~HasData(reversedDataQueue)
               /\ Step("val", "loop", {}, "popTimeout")
               /\ UNCHANGED <<queues, reversedData, reversedCount, valRevTaken>>
  /\ UNCHANGED <<valFrame, valQueuesAreDefined, originalData, comparisonCount,
                 failureCount, valOrigTaken, valDropped, valLastCmp>>

\* a wait for the original list that gives up after the first timeout
ValOrigRetry_GiveUp == running["val"] /\ lastOp["val"] # "popTimeout"

\* while (!originalWasSuccessfullyReceived && thread_.thread_running())
ValOrigRetry == running["val"]

\* when the loop ends without the original list, the reversed list is not compared
ValOrigCheck ==
  /\ pc["val"] = "origchk"
  /\ IF ValOrigRetry
       THEN /\ Step("val", "popOrig", {}, "none")
            /\ UNCHANGED valDropped
       ELSE /\ Step("val", "loop", {}, "dropped")
            /\ valDropped' = Bump(valDropped)
  /\ UNCHANGED <<valFrame, queues, valQueuesAreDefined, reversedData, originalData,
                 reversedCount, comparisonCount, failureCount, valRevTaken,
                 valOrigTaken, valLastCmp>>

\* a comparison of the sizes alone
ValMismatch_SizesOnly(reversedOriginal, reversed) == Len(reversedOriginal) # Len(reversed)

\* if (originalData != reversedData)   ("original" has been reversed at this point)
ValMismatch(reversedOriginal, reversed) == reversedOriginal # reversed

\* a mismatch reported as an error
MismatchIssues_Error == {"DataMismatchError"}

\* if (originalData != reversedData) { //ers::error();  ++failureCount; }
MismatchIssues == {}

\* if (originalDataQueue_->pop(originalData, queueTimeout_)) { ...; ++comparisonCount; }
\* else { ers::warning(QueueTimeoutExpired(...)); }
\* if (originalWasSuccessfullyReceived) { ers::debug(ProgressUpdate(...));
\*   std::reverse(originalData.begin(), originalData.end());
\*   if (originalData != reversedData) { ++failureCount; } }
ValPopOrig ==
  /\ pc["val"] = "popOrig"
  /\ IF originalDataQueue = NULL
       THEN /\ NullCall("val")
            /\ UNCHANGED <<queues, originalData, comparisonCount, failureCount,
                           valOrigTaken, valLastCmp>>
       ELSE \/ /\ HasData(originalDataQueue)
               /\ LET orig == Head(queues[originalDataQueue])
                      fails == ValMismatch(Reverse(orig), reversedData)
                      after == IF fails THEN failureCount + 1 ELSE failureCount
                  IN /\ originalData' = Reverse(orig)
                     /\ failureCount' = after
                     /\ valLastCmp' = [n |-> comparisonCount + 1, rev |-> reversedData,
                                       orig |-> orig, before |-> failureCount,
                                       after |-> after, revPos |-> valRevTaken,
                                       origPos |-> Bump(valOrigTaken)]
               /\ valOrigTaken' = Bump(valOrigTaken)
               /\ queues' = [queues EXCEPT ![originalDataQueue] = Tail(@)]
               /\ comparisonCount' = comparisonCount + 1
               /\ Step("val", "loop",
                       {"ProgressUpdate"} \cup
                         (IF ValMismatch(Reverse(Head(queues[originalDataQueue])), reversedData)
                            THEN MismatchIssues ELSE {}),
                       "popped")
            \/ /\ ~HasData(originalDataQueue)
               /\ Step("val", "origchk", TimeoutWarning, "popTimeout")
               /\ UNCHANGED <<queues, originalData, comparisonCount, failureCount,
                              valOrigTaken, valLastCmp>>
  /\ UNCHANGED <<valFrame, valQueuesAreDefined, reversedData, reversedCount,
                 valRevTaken, valDropped>>

\* ers::info(ProgressUpdate(... reversedCount, comparisonCount, failureCount ...));
\* do_work returns and its locals end
ValExit ==
  /\ pc["val"] = "exit"
  /\ reversedCount' = 0
  /\ comparisonCount' = 0
  /\ failureCount' = 0
  /\ reversedData' = <<>>
  /\ originalData' = <<>>
  /\ valLastCmp' = NoCmp
  /\ Step("val", "done", {"ProgressUpdate"}, "none")
  /\ UNCHANGED <<valFrame, queues, valQueuesAreDefined, valRevTaken, valOrigTaken,
                 valDropped>>

ValRun == ValEntry \/ ValLoop \/ ValPopRev \/ ValOrigCheck \/ ValPopOrig

ValWork == ValRun \/ ValExit

\* ------------------------------------------------- the rest of the host
Producers(q) == {m \in deployed : \/ m = "gen" /\ q \in Range(outputQueues)
                                  \/ m = "rev" /\ q = outputQueue}
Consumers(q) == {m \in deployed : \/ m = "rev" /\ q = inputQueue
                                  \/ m = "val" /\ q \in {reversedDataQueue, originalDataQueue}}

EnvPush(q, l) ==
  /\ Producers(q) = {}
  /\ Consumers(q) # {}
  /\ envBudget > 0
  /\ HasRoom(q)
  /\ queues' = [queues EXCEPT ![q] = Append(@, l)]
  /\ envBudget' = envBudget - 1
  /\ UNCHANGED <<deployed, thrVars, genVars, revVars, valVars>>

EnvPop(q) ==
  /\ Consumers(q) = {}
  /\ Producers(q) # {}
  /\ HasData(q)
  /\ queues' = [queues EXCEPT ![q] = Tail(@)]
  /\ UNCHANGED <<deployed, envBudget, thrVars, genVars, revVars, valVars>>

\* --------------------------------------------------------------- system
InitCommon ==
  /\ queues = [q \in QueueNames |-> <<>>]
  /\ envBudget = MaxItems
  /\ pc = [m \in Modules |-> "idle"]
  /\ running = [m \in Modules |-> FALSE]
  /\ stopping = [m \in Modules |-> FALSE]
  /\ issued = [m \in Modules |-> {}]
  /\ lastOp = [m \in Modules |-> "none"]
  /\ cmdLog = [m \in Modules |-> "none"]
  /\ sinceCheck = [m \in Modules |-> <<>>]
  /\ nIntsPerList = DefaultIntsPerList
  /\ waitBetweenSendsMsec = DefaultWaitMsec
  /\ randState = 1
  /\ theList = <<>> /\ idx = 0 /\ generatedCount = 0 /\ genSentCount = 0
  /\ tmpIdx = 0 /\ genPushLog = <<>>
  /\ revQueuesAreDefined = TRUE /\ valQueuesAreDefined = TRUE
  /\ workingVector = <<>> /\ receivedCount = 0 /\ revSentCount = 0
  /\ revIn = <<>> /\ revPushLog = <<>>
  /\ reversedData = <<>> /\ originalData = <<>>
  /\ reversedCount = 0 /\ comparisonCount = 0 /\ failureCount = 0
  /\ valRevTaken = 0 /\ valOrigTaken = 0 /\ valDropped = 0 /\ valLastCmp = NoCmp

Init ==
  /\ deployed \in {{"gen"}, {"rev"}, {"val"}}
  /\ InitCommon
  /\ outputQueues \in (IF "gen" \in deployed THEN GenOutputs ELSE {<<"A", "B">>})
  /\ configInts \in (IF "gen" \in deployed THEN ConfigInts ELSE {{}})
  /\ configWait \in (IF "gen" \in deployed THEN ConfigWaits ELSE {{}})
  /\ inputQueue = "A" /\ outputQueue = "C"
  /\ reversedDataQueue = "C" /\ originalDataQueue = "B"
  /\ valChecks \in (IF "val" \in deployed THEN BOOLEAN ELSE {TRUE})

\* the constructors alone leave every handle null; init() sets them
InitUninit ==
  /\ deployed \in {{"rev"}, {"val"}}
  /\ InitCommon
  /\ outputQueues = <<"A", "B">> /\ configInts = {} /\ configWait = {}
  /\ inputQueue \in (IF "rev" \in deployed THEN {"A", NULL} ELSE {"A"})
  /\ outputQueue \in (IF "rev" \in deployed THEN {"C", NULL} ELSE {"C"})
  /\ reversedDataQueue \in (IF "val" \in deployed THEN {"C", NULL} ELSE {"C"})
  /\ originalDataQueue \in (IF "val" \in deployed THEN {"B", NULL} ELSE {"B"})
  /\ valChecks \in (IF "val" \in deployed THEN BOOLEAN ELSE {TRUE})

Next ==
  \/ \E m \in Modules : do_start(m) \/ do_stop(m) \/ do_stop_join(m)
  \/ do_configure
  \/ \E m \in Modules : execute_configure(m)
  \/ GenWork
  \/ RevWork
  \/ ValWork
  \/ \E q \in QueueNames : EnvPop(q)
  \/ \E q \in QueueNames, l \in EnvLists : EnvPush(q, l)

NextUninit ==
  \/ \E m \in Modules : do_start(m) \/ do_stop(m) \/ do_stop_join(m)
  \/ \E m \in Modules : execute_configure(m)
  \/ RevWork
  \/ ValWork
  \/ \E q \in QueueNames : EnvPop(q)
  \/ \E q \in QueueNames, l \in EnvLists : EnvPush(q, l)

Spec == Init /\ [][Next]_vars

\* modules whose init() may not have run before the start command
SpecUninit == InitUninit /\ [][NextUninit]_vars

\* each worker is a thread of its own: it is scheduled as long as it can step
\* (every queue call and the sleep are timed), and a join returns once it ended
FairSpec ==
  /\ Spec
  /\ WF_vars(GenWork) /\ WF_vars(RevWork) /\ WF_vars(ValWork)
  /\ \A m \in Modules : WF_vars(do_stop_join(m))

\* the pipeline: the generator writes each list to A (the reverser's input) and to B
\* (the validator's original data), in either order, and the reverser writes to C
\* (the validator's reversed data)
PipeOutputs == {<<"A", "B">>, <<"B", "A">>}

InitPipe ==
  /\ deployed = Modules
  /\ InitCommon
  /\ outputQueues \in PipeOutputs
  /\ configInts \in ConfigInts
  /\ configWait = {}
  /\ inputQueue = "A" /\ outputQueue = "C"
  /\ reversedDataQueue = "C" /\ originalDataQueue = "B"
  /\ valChecks = FALSE

\* the three modules started and configured, never stopped
NextPipe ==
  \/ \E m \in Modules : do_start(m)
  \/ do_configure
  \/ GenRun
  \/ RevRun
  \/ ValRun

SpecPipe == InitPipe /\ [][NextPipe]_vars

\* every module is started, and every worker thread keeps being scheduled
FairPipe ==
  /\ SpecPipe
  /\ \A m \in Modules : WF_vars(do_start(m))
  /\ WF_vars(GenRun) /\ WF_vars(RevRun) /\ WF_vars(ValRun)

\* a generator whose configured list length may also exceed the constructor's
RaceInts == ConfigInts \cup {{DefaultIntsPerList + 1}}

InitRace ==
  /\ deployed = {"gen"}
  /\ InitCommon
  /\ outputQueues = <<"A", "B">>
  /\ configInts \in RaceInts
  /\ configWait = {}
  /\ inputQueue = "A" /\ outputQueue = "C"
  /\ reversedDataQueue = "C" /\ originalDataQueue = "B"
  /\ valChecks = FALSE

NextRace ==
  \/ \E m \in Modules : do_start(m) \/ do_stop(m) \/ do_stop_join(m)
  \/ do_configure
  \/ GenWork
  \/ \E q \in QueueNames : EnvPop(q)

\* the generator alone, commanded while its worker runs
SpecRace == InitRace /\ [][NextRace]_vars
\* ================================================================ claims
\* reverse(L) as a list: element i of the result is element Len(L)+1-i of L
Mirror(s) == [i \in 1 .. Len(s) |-> s[Len(s) + 1 - i]]

\* C1: each comparison of a reversed list R with an original list O raises the
\* failure counter by exactly 1 when reverse(R) # O (the same as reverse(O) # R)
\* and leaves it unchanged when the lists agree.
C1_MismatchCounted ==
  valLastCmp.n > 0 =>
    LET differ == Mirror(valLastCmp.rev) # valLastCmp.orig IN
    /\ differ <=> (Mirror(valLastCmp.orig) # valLastCmp.rev)
    /\ valLastCmp.after = valLastCmp.before + (IF differ THEN 1 ELSE 0)
    /\ failureCount = valLastCmp.after
    /\ comparisonCount = valLastCmp.n

\* a comparison of two different lists of the same length has been counted
C1_Witness ==
  /\ valLastCmp.n > 0
  /\ Len(valLastCmp.rev) = 2
  /\ Len(valLastCmp.orig) = 2
  /\ valLastCmp.rev = valLastCmp.orig
  /\ valLastCmp.after = valLastCmp.before + 1

RevBetweenLists == pc["rev"] \in {"loop", "pop", "exit"} /\ receivedCount > 0

C4_SamePosition ==
  /\ valDropped = 0
  /\ valLastCmp.n > 0 => valLastCmp.revPos = valLastCmp.origPos

\* C4 (amended): a reversed list is taken without being compared only when the
\* running flag is cleared while the validator waits for the original list; with d
\* such lists so far, the i-th reversed list is compared with the (i-d)-th original
\* list, so the positions agree until the first such stop.
C4_SamePositionUntilStopped ==
  /\ lastOp["val"] = "dropped" => ~running["val"]
  /\ valLastCmp.n > 0 => valLastCmp.revPos = valLastCmp.origPos + valDropped
  /\ (valRevTaken - valOrigTaken) - valDropped
       = (IF pc["val"] \in {"origchk", "popOrig"} THEN 1 ELSE 0)

\* after one reversed list was left uncompared by a stop, the second reversed list
\* has been compared with the first original list
C4_Witness ==
  /\ valLastCmp.n > 0
  /\ valLastCmp.revPos = 2
  /\ valLastCmp.origPos = 1
  /\ valDropped = 1
GenListComplete == pc["gen"] \in {"forq", "pushchk", "push", "sleep"}

\* C5: every list the generator creates and pushes has exactly N elements, N the
\* configured list length (the default before any configure command), and every
\* element is in 1..1000.
C5_LengthAndRange ==
  GenListComplete =>
    /\ Len(theList) \in {DefaultIntsPerList, ConfigValue(configInts)}
    /\ \A i \in DOMAIN theList : theList[i] \in 1 .. RandModulus

\* the same list has exactly as many elements as x has and x has no others
SameElements(x, y) ==
  /\ Len(x) = Len(y)
  /\ \A v \in Range(x) \cup Range(y) :
       Cardinality({i \in DOMAIN x : x[i] = v}) = Cardinality({i \in DOMAIN y : y[i] = v})

\* C6: the list the reverser pushes for input L is reverse(L), with the length and
\* the elements of L, and reversing it once more gives L; the same holds for the
\* reversal the validator applies to the original list.
C6_ReverseTwice ==
  /\ \A k \in DOMAIN revPushLog :
       /\ revPushLog[k] = Mirror(revIn)
       /\ SameElements(revPushLog[k], revIn)
       /\ Reverse(revPushLog[k]) = revIn
  /\ valLastCmp.n > 0 =>
       /\ originalData = Mirror(valLastCmp.orig)
       /\ Reverse(originalData) = valLastCmp.orig
  /\ \A l \in EnvLists : Reverse(Reverse(l)) = l /\ Reverse(l) = Mirror(l)

\* the reverser has pushed the reversal of a list that is not its own reversal
C6_Witness ==
  /\ lastOp["rev"] = "pushed"
  /\ Len(revIn) = 2
  /\ revPushLog = <<Mirror(revIn)>>
  /\ revPushLog[1] # revIn

TimedOut(m) == lastOp[m] \in {"popTimeout", "pushTimeout"}

\* C7 (as claimed): every timed-out pop or push, in every module, logs a
\* QueueTimeoutExpired warning.
C7_EveryTimeoutWarns ==
  \A m \in Modules : TimedOut(m) => "QueueTimeoutExpired" \in issued[m]

\* C7 (amended): a timed-out push (generator, reverser) and a timed-out pop from
\* the validator's original-data queue log a QueueTimeoutExpired warning, and the
\* worker tests its running flag and, if it is set, repeats the call on the same
\* queue with the same list; a timed-out pop from the reverser's input queue or
\* from the validator's reversed-data queue logs nothing, and the worker goes back
\* to the head of its loop, where it pops again if the running flag is set.
C7_TimeoutsWarnExceptFirstPop ==
  [][ /\ (pc["gen"] = "push" /\ lastOp'["gen"] = "pushTimeout") =>
           /\ issued'["gen"] = {"QueueTimeoutExpired"}
           /\ pc'["gen"] = "pushchk"
      /\ (pc["gen"] = "pushchk" /\ running["gen"] /\ pc'["gen"] # "pushchk") =>
           /\ pc'["gen"] = "push"
           /\ UNCHANGED <<theList, tmpIdx>>
      /\ (pc["rev"] = "push" /\ lastOp'["rev"] = "pushTimeout") =>
           /\ issued'["rev"] = {"QueueTimeoutExpired"}
           /\ pc'["rev"] = "pushchk"
      /\ (pc["rev"] = "pushchk" /\ running["rev"] /\ pc'["rev"] # "pushchk") =>
           /\ pc'["rev"] = "push"
           /\ UNCHANGED workingVector
      /\ (pc["val"] = "popOrig" /\ lastOp'["val"] = "popTimeout") =>
           /\ issued'["val"] = {"QueueTimeoutExpired"}
           /\ pc'["val"] = "origchk"
      /\ (pc["val"] = "origchk" /\ running["val"] /\ pc'["val"] # "origchk") =>
           /\ pc'["val"] = "popOrig"
           /\ UNCHANGED reversedData
      /\ (pc["rev"] = "pop" /\ lastOp'["rev"] = "popTimeout") =>
           /\ issued'["rev"] = {}
           /\ pc'["rev"] = "loop"
      /\ (pc["val"] = "popRev" /\ lastOp'["val"] = "popTimeout") =>
           /\ issued'["val"] = {}
           /\ pc'["val"] = "loop"
      /\ \A m \in {"rev", "val"} :
           (pc[m] = "loop" /\ running[m] /\ pc'[m] # "loop") =>
             pc'[m] = (IF m = "rev" THEN "pop" ELSE "popRev")
    ]_vars

\* a push of the reverser has timed out, was retried, and timed out again ...
C7_Witness ==
  /\ lastOp["rev"] = "pushTimeout"
  /\ issued["rev"] = {"QueueTimeoutExpired"}
  /\ pc["rev"] = "pushchk"
  /\ running["rev"]
  /\ ~HasRoom(outputQueue)
Handles(m) == IF m = "rev"
                THEN {<<"input", inputQueue>>, <<"output", outputQueue>>}
                ELSE {<<"reversed data", reversedDataQueue>>,
                      <<"original data", originalDataQueue>>}
HasUnset(m) == \E h \in Handles(m) : h[2] = NULL

\* C8: a worker started with an unset queue handle raises InvalidQueueFatalError for
\* each unset handle, makes no queue call, and leaves its loop with its counters at
\* 0; no worker makes a queue call through an unset handle.
C8_UnsetHandleAborts ==
  \A m \in {"rev", "val"} :
    /\ lastOp[m] # "nullCall"
    /\ (HasUnset(m) /\ pc[m] \notin {"idle", "entry"}) =>
         /\ pc[m] \in {"loop", "exit", "done"}
         /\ lastOp[m] = "none"
         /\ (pc[m] = "loop" => issued[m] = FatalsFor(Handles(m)))
         /\ receivedCount = 0 /\ revSentCount = 0
         /\ reversedCount = 0 /\ comparisonCount = 0 /\ failureCount = 0

GenInPush == pc["gen"] \in {"pushchk", "push"}
RevInPush == pc["rev"] \in {"pushchk", "push"}

\* C9: while the running flag holds a delivery is never given up: after a timeout
\* the same list is pushed again to the same queue, the retry loop is left without
\* a successful push only when the flag has been cleared, the reverser pops no
\* further list and the generator creates no further list before the current one
\* has been delivered.
C9_NoGivingUpWhileRunning ==
  /\ [](pc["rev"] = "pop" => receivedCount = revSentCount)
  /\ [](pc["gen"] = "fill" => genSentCount = generatedCount * Len(outputQueues))
  /\ [][ /\ (GenInPush /\ ~GenInPush') => (lastOp'["gen"] = "pushed" \/ ~running["gen"])
         /\ (GenInPush /\ GenInPush') => UNCHANGED <<theList, tmpIdx>>
         /\ (pc["gen"] = "pushchk" /\ running["gen"] /\ ~UNCHANGED pc) =>
              pc'["gen"] = "push"
         /\ (RevInPush /\ ~RevInPush') => (lastOp'["rev"] = "pushed" \/ ~running["rev"])
         /\ (RevInPush /\ RevInPush') => UNCHANGED <<workingVector, receivedCount>>
         /\ (pc["rev"] = "pushchk" /\ running["rev"] /\ ~UNCHANGED pc) =>
              pc'["rev"] = "push"
       ]_vars

\* the generator's push to its second queue has just timed out with the flag set
C9_Witness ==
  /\ lastOp["gen"] = "pushTimeout"
  /\ running["gen"]
  /\ tmpIdx = 2
  /\ genSentCount = 1

WorkerActive(m) == pc[m] \notin {"idle", "done"}

\* C10: once the running flag of a started worker is cleared, do_work returns,
\* whatever the queues hold, and the stop command completes.
C10_StopCompletes ==
  \A m \in Modules :
    /\ (WorkerActive(m) /\ ~running[m]) ~> (pc[m] = "done")
    /\ stopping[m] ~> ~stopping[m]

\* the flag is cleared while the generator is retrying a push to a full queue
C10_Witness ==
  /\ stopping["gen"]
  /\ pc["gen"] = "push"
  /\ ~HasRoom(outputQueues[tmpIdx])

QueueOps == {"popped", "pushed", "popTimeout", "pushTimeout", "nullCall"}
\* module m makes a queue call in this step
QueueCall(m) == pc'[m] # pc[m] /\ lastOp'[m] \in QueueOps

Mismatched == valLastCmp.n > 0 /\ Mirror(valLastCmp.rev) # valLastCmp.orig

\* C12: a mismatch raises the failure counter by 1 and has no other effect: the
\* step raises no error and no fatal issue (only the progress record every
\* comparison makes), it leaves the running flag alone, and the worker is at
\* the head of its loop, from where it pops the next reversed list exactly as
\* after a comparison of equal lists.
C12_MismatchOnlyCounts ==
  /\ [](valLastCmp.n > 0 =>
          /\ pc["val"] = "loop"
          /\ issued["val"] = {"ProgressUpdate"}
          /\ lastOp["val"] = "popped"
          /\ failureCount = valLastCmp.before + (IF Mismatched THEN 1 ELSE 0)
          /\ comparisonCount = valLastCmp.n)
  /\ [][ /\ (pc["val"] = "popOrig" /\ pc'["val"] = "loop") =>
              UNCHANGED <<running, stopping, reversedData, reversedCount>>
         /\ (valLastCmp.n > 0 /\ running["val"] /\ pc'["val"] # pc["val"]) =>
              /\ pc'["val"] = "popRev"
              /\ UNCHANGED <<failureCount, comparisonCount, reversedCount>>
      ]_vars

\* after a counted mismatch the running validator has popped the next reversed list
C12_Witness ==
  /\ failureCount = 1
  /\ comparisonCount = 1
  /\ reversedCount = 2
  /\ lastOp["val"] = "popped"
  /\ pc["val"] = "origchk"
  /\ running["val"]

\* C13: every comparison in which the two lists differ produces an issue record
\* for that mismatch (a DataMismatchError), besides the progress record.
C13_MismatchLogged ==
  Mismatched => "DataMismatchError" \in issued["val"]

QueueWait == <<"queue", QueueTimeoutMsec>>
SleepWaits == {<<"sleep", DefaultWaitMsec>>, <<"sleep", ConfigWait(configWait)>>}

\* C14 (as claimed): every wait of every worker is a queue pop or push with the
\* timeout of 100 ms; no worker sleeps.
C14_OnlyQueueWaits ==
  \A m \in Modules : \A i \in DOMAIN sinceCheck[m] : sinceCheck[m][i] = QueueWait

\* C14 (amended): a worker waits only in a queue pop or push with the timeout of
\* 100 ms and, in the generator, in the sleep of waitBetweenSendsMsec (1000 ms
\* unless configured) that ends every loop iteration; between two tests of its
\* running flag the reverser and the validator make at most one timed queue
\* call, the generator at most one timed push, then (after its last queue) the sleep.
C14_QueueWaitsAndSleep ==
  /\ \A m \in {"rev", "val"} : sinceCheck[m] \in {<<>>, <<QueueWait>>}
  /\ \/ sinceCheck["gen"] \in {<<>>, <<QueueWait>>}
     \/ \E w \in SleepWaits : sinceCheck["gen"] \in {<<w>>, <<QueueWait, w>>}
  /\ \A m \in Modules : lastOp[m] = "slept" => (m = "gen" /\ pc[m] = "loop")

\* the generator has pushed to its last queue and slept without testing the flag
C14_Witness ==
  /\ pc["gen"] = "loop"
  /\ lastOp["gen"] = "slept"
  /\ sinceCheck["gen"] = <<QueueWait, <<"sleep", DefaultWaitMsec>>>>

\* C15: every module accepts configure, start and stop: a configure command
\* dispatched to a module is handled, never refused as unknown, and an idle
\* module accepts start.
C15_ConfigureHandled ==
  \A m \in deployed :
    /\ cmdLog[m] # "rejected"
    /\ pc[m] = "idle" => ENABLED do_start(m)

\* the value of a configuration key, or dflt when the key is absent
KeyOr(c, dflt) == IF c = {} THEN dflt ELSE CHOOSE n \in c : TRUE

\* C16: before any configure command the list length and the inter-send delay
\* are 4 and 1000; after a configure command they are the configuration's
\* nIntsPerList and waitBetweenSendsMsec, 4 and 1000 standing in for an absent
\* key; every list created after configure returned has the configured length
\* and keeps it until it is pushed, and every sleep begun after configure
\* returned lasts the configured delay.
C16_ConfigureSetsLengthAndDelay ==
  /\ [](cmdLog["gen"] = "none" =>
          nIntsPerList = 4 /\ waitBetweenSendsMsec = 1000)
  /\ [](cmdLog["gen"] = "handled" =>
          /\ nIntsPerList = KeyOr(configInts, 4)
          /\ waitBetweenSendsMsec = KeyOr(configWait, 1000))
  /\ [][ /\ (pc["gen"] = "loop" /\ pc'["gen"] = "fill" /\ cmdLog["gen"] = "handled") =>
              Len(theList') = KeyOr(configInts, 4)
         /\ (pc["gen"] \in {"fill", "forq", "pushchk", "push"}) =>
              Len(theList') = Len(theList)
         /\ (pc["gen"] = "push" /\ lastOp'["gen"] = "pushed") =>
              Len(Head(Reverse(queues'[outputQueues[tmpIdx]]))) = Len(theList)
         /\ (pc["gen"] = "sleep" /\ pc'["gen"] = "loop" /\ cmdLog["gen"] = "handled") =>
              sinceCheck'["gen"][Len(sinceCheck'["gen"])] = <<"sleep", KeyOr(configWait, 1000)>>
      ]_vars

\* a list created after configure, with the configured length 2, went to both queues
\* and the configured delay 0 was slept
C16_Witness ==
  /\ cmdLog["gen"] = "handled"
  /\ configInts = {2}
  /\ configWait = {0}
  /\ pc["gen"] = "loop"
  /\ lastOp["gen"] = "slept"
  /\ sinceCheck["gen"] = <<QueueWait, <<"sleep", 0>>>>
  /\ genSentCount = 2
  /\ \E q \in QueueNames : HasData(q) /\ Len(Head(queues[q])) = 2

NoQueuesWarned == "NoOutputQueuesAvailableWarning" \in issued["gen"]

\* C17: a generator without output queues still creates one list in every loop
\* iteration, issues exactly one NoOutputQueuesAvailableWarning for it (when the
\* loop over the queues ends), pushes nothing, keeps its sent counter at 0 and
\* goes on to the sleep and the next iteration while the running flag holds; a
\* generator with an output queue never issues the warning.
C17_NoQueuesWarnsAndDrops ==
  /\ [](NoQueuesWarned => (Len(outputQueues) = 0 /\ pc["gen"] = "sleep"))
  /\ [](("gen" \in deployed /\ Len(outputQueues) = 0) =>
          /\ genSentCount = 0
          /\ genPushLog = <<>>
          /\ \A q \in QueueNames : queues[q] = <<>>
          /\ pc["gen"] \notin {"pushchk", "push"})
  /\ [][ Len(outputQueues) = 0 =>
           /\ (pc["gen"] = "fill" /\ pc'["gen"] # "fill") =>
                (pc'["gen"] = "forq" /\ generatedCount' = generatedCount + 1)
           /\ (pc["gen"] = "forq" /\ pc'["gen"] # "forq") =>
                (pc'["gen"] = "sleep" /\ issued'["gen"] = {"NoOutputQueuesAvailableWarning"})
           /\ (pc["gen"] = "sleep" /\ pc'["gen"] # "sleep") =>
                (pc'["gen"] = "loop" /\ issued'["gen"] = {})
           /\ (pc["gen"] = "loop" /\ running["gen"] /\ pc'["gen"] # "loop") =>
                (pc'["gen"] = "fill" /\ Len(theList') = nIntsPerList)
      ]_vars

\* the second list of a generator without queues has been created and dropped
C17_Witness ==
  /\ Len(outputQueues) = 0
  /\ generatedCount = 2
  /\ pc["gen"] = "sleep"
  /\ issued["gen"] = {"NoOutputQueuesAvailableWarning"}
  /\ running["gen"]

C19_EveryListCompared ==
  \A k \in 1 .. MaxCount : (generatedCount = k) ~> (comparisonCount >= k)

\* the generator, writing B before A, retries a push to a full queue while the
\* validator's pop from an empty queue has timed out
C19_Witness ==
  /\ outputQueues = <<"B", "A">>
  /\ lastOp["gen"] = "pushTimeout"
  /\ pc["gen"] = "pushchk"
  /\ lastOp["val"] = "popTimeout"
  /\ generatedCount = 2
  /\ comparisonCount = 0

\* C20: a configure command that changes nIntsPerList while the worker runs does
\* no harm: the fill loop never writes at an index at or beyond the length the
\* list was allocated with, every complete list has the length of one configured
\* value, and every element of it is in 1..1000.
C20_ConfigureRaceHarmless ==
  /\ lastOp["gen"] # "oobWrite"
  /\ pc["gen"] # "crashed"
  /\ GenListComplete =>
       /\ Len(theList) \in {4, KeyOr(configInts, 4)}
       /\ \A i \in DOMAIN theList : 1 <= theList[i] /\ theList[i] <= 1000

RevPushes == pc["rev"] = "push" /\ lastOp'["rev"] = "pushed"
RevPops == pc["rev"] = "pop" /\ lastOp'["rev"] = "popped"

\* C21: the reverser's pushes follow its pops list by list: a pop takes the head
\* of the input queue, every push appends to the output queue the reversal of
\* the list popped last, at most one push is made per popped list (so nothing
\* is duplicated or reordered, and only a list given up at stop is missing),
\* and a timed-out pop is followed by no push before the next successful pop.
C21_PushesFollowPops ==
  /\ [](pc["rev"] \in {"pushchk", "push"} =>
          (workingVector = Mirror(revIn) /\ revPushLog = <<>> /\ lastOp["rev"] # "popTimeout"))
  /\ [][ /\ RevPops =>
              /\ revIn' = Head(queues[inputQueue])
              /\ queues' = [queues EXCEPT ![inputQueue] = Tail(@)]
              /\ revPushLog' = <<>>
         /\ RevPushes =>
              /\ queues' = [queues EXCEPT ![outputQueue] = Append(@, Mirror(revIn))]
              /\ revPushLog = <<>>
              /\ revPushLog' = <<Mirror(revIn)>>
              /\ pc'["rev"] = "loop"
         /\ (pc["rev"] = "pop" /\ lastOp'["rev"] = "popTimeout") =>
              /\ pc'["rev"] = "loop"
              /\ UNCHANGED <<queues, workingVector, revIn, revPushLog>>
         /\ (queues'[outputQueue] # queues[outputQueue] /\ pc'["rev"] # pc["rev"]) =>
              RevPushes
      ]_vars

\* after a list was popped and pushed, a pop has timed out and the loop is back at
\* its head with the stale working vector
C21_Witness ==
  /\ pc["rev"] = "loop"
  /\ lastOp["rev"] = "popTimeout"
  /\ Len(workingVector) = 2
  /\ workingVector # revIn
  /\ revPushLog = <<workingVector>>
  /\ running["rev"]

RevBacklog == receivedCount - revSentCount

\* C22: in the reverser's do_work the received counter is the sent counter or
\* one more; it is one more exactly from a successful pop to the following
\* successful push, or, when the running flag was cleared before that push
\* succeeded, from there to the exit of the worker.
C22_ReceivedSentWithinOne ==
  /\ RevBacklog \in {0, 1}
  /\ pc["rev"] \in {"pushchk", "push"} => RevBacklog = 1
  /\ (RevBacklog = 1 /\ pc["rev"] \notin {"pushchk", "push"}) =>
       /\ pc["rev"] \in {"loop", "exit"}
       /\ ~running["rev"]
       /\ revPushLog = <<>>
  /\ pc["rev"] = "pop" => RevBacklog = 0

\* the worker is about to exit with its second list received and not sent
C22_Witness ==
  /\ pc["rev"] = "exit"
  /\ receivedCount = 2
  /\ revSentCount = 1
  /\ ~running["rev"]

ValTakesOrig ==
  pc'["val"] # pc["val"] /\ queues'[originalDataQueue] # queues[originalDataQueue]

GenQ == Len(outputQueues)
GenInLoop == pc["gen"] \in {"loop", "fill", "forq", "pushchk", "push", "sleep"}

\* C24: with Q >= 1 output queues and the running flag set,
\* (generatedCount - 1) * Q <= sentCount <= generatedCount * Q throughout do_work:
\* the list in hand has gone to the queues before the current one and to no
\* other, a new list is created only when the previous one has gone to all Q
\* queues, and a push that times out on a full queue leaves the list count, the
\* sent count and the current queue as they were.
C24_SentTracksGenerated ==
  /\ []((GenQ >= 1 /\ running["gen"] /\ GenInLoop) =>
          /\ (generatedCount - 1) * GenQ <= genSentCount
          /\ genSentCount <= generatedCount * GenQ
          /\ pc["gen"] \in {"loop", "fill", "sleep"} => genSentCount = generatedCount * GenQ
          /\ pc["gen"] = "forq" => genSentCount = (generatedCount - 1) * GenQ + tmpIdx
          /\ pc["gen"] \in {"pushchk", "push"} =>
               genSentCount = (generatedCount - 1) * GenQ + tmpIdx - 1)
  /\ [][ /\ (generatedCount' = generatedCount + 1) =>
              genSentCount = generatedCount * GenQ
         /\ (pc["gen"] = "push" /\ lastOp'["gen"] = "pushTimeout") =>
              /\ ~HasRoom(outputQueues[tmpIdx])
              /\ UNCHANGED <<queues, generatedCount, genSentCount, tmpIdx, theList>>
      ]_vars

\* the third list waits for room in the first queue: nothing of it has been sent
C24_Witness ==
  /\ running["gen"]
  /\ lastOp["gen"] = "pushTimeout"
  /\ tmpIdx = 1
  /\ generatedCount = 3
  /\ genSentCount = 4
  /\ queues[outputQueues[2]] = <<>>
====
